---- MODULE Spec2Model ----
(***************************************************************************)
(* Model of csv_tool.py: the run of main (merge -> select -> rename ->     *)
(* required -> save) and its helpers read_table, merge_inputs and          *)
(* parse_mapping.  Python strings are sequences of one-character strings,  *)
(* so that split and strip are computed, not assumed.                      *)
(***************************************************************************)
EXTENDS Integers, Sequences, FiniteSets, TLC

VARIABLES args, pc, df, exit, fs, log, mapping_str, parsed

vars == <<args, pc, df, exit, fs, log, mapping_str, parsed>>

\* ---------------------------------------------------------------- bounds
MaxFiles == 2      \* number of --inputs paths
MaxArgs == 4       \* input paths plus list entries of --select, --rename, --required
MaxRows == 2       \* rows of one input file
MaxLen == 7        \* length of the string handed to parse_mapping

None == "None"
NaN == "NaN"

\* ------------------------------------------------------- Python strings
RECURSIVE Find(_, _, _)
\* index of the first occurrence of character ch in s at or after i, 0 if none
Find(s, ch, i) ==
    IF i > Len(s) THEN 0
    ELSE IF s[i] = ch THEN i
    ELSE Find(s, ch, i + 1)

RECURSIVE Split(_, _)
\* str.split(sep) for a one-character separator: "".split(",") is [""]
Split(s, sep) ==
    LET i == Find(s, sep, 1)
    IN IF i = 0 THEN <<s>>
       ELSE <<SubSeq(s, 1, i - 1)>> \o Split(SubSeq(s, i + 1, Len(s)), sep)

Whitespace == {" "}

RECURSIVE LStrip(_)
LStrip(s) ==
    IF s # <<>> /\ Head(s) \in Whitespace THEN LStrip(Tail(s)) ELSE s

RECURSIVE RStrip(_)
RStrip(s) ==
    IF s # <<>> /\ s[Len(s)] \in Whitespace
    THEN RStrip(SubSeq(s, 1, Len(s) - 1)) ELSE s

\* str.strip()
Strip(s) == LStrip(RStrip(s))

\* truth value of an optional string argument: None and "" are falsy
Truthy(s) == s # None /\ s # <<>>

\* [c.strip() for c in s.split(",")]
StripAll(parts) == [i \in 1..Len(parts) |-> Strip(parts[i])]

SplitNames(s) == StripAll(Split(s, ","))

Range(seq) == {seq[i] : i \in 1..Len(seq)}

\* variant: the scan stops at the first element that is not in cols
RECURSIVE NotIn_FirstOnly(_, _)
NotIn_FirstOnly(seq, cols) ==
    IF seq = <<>> THEN <<>>
    ELSE IF Head(seq) \in Range(cols) THEN NotIn_FirstOnly(Tail(seq), cols)
    ELSE <<Head(seq)>>

\* [x for x in seq if x not in cols], order and repetitions kept
RECURSIVE NotIn(_, _)
NotIn(seq, cols) ==
    IF seq = <<>> THEN <<>>
    ELSE (IF Head(seq) \in Range(cols) THEN <<>> ELSE <<Head(seq)>>)
         \o NotIn(Tail(seq), cols)

\* ---------------------------------------------------------- Python dict
\* a dict is the sequence of its <<key, value>> items in insertion order
DictKeys(d) == [i \in 1..Len(d) |-> d[i][1]]

DictHas(d, k) == \E i \in 1..Len(d) : d[i][1] = k

DictGet(d, k) == d[CHOOSE i \in 1..Len(d) : d[i][1] = k][2]

\* d[k] = v: an existing key keeps its position and takes the new value
DictSet(d, k, v) ==
    IF DictHas(d, k)
    THEN [i \in 1..Len(d) |-> IF d[i][1] = k THEN <<k, v>> ELSE d[i]]
    ELSE Append(d, <<k, v>>)

\* {k: v for k, v in mapping.items() if k not in invalid}
RECURSIVE DictWithout(_, _)
DictWithout(d, invalid) ==
    IF d = <<>> THEN <<>>
    ELSE (IF Head(d)[1] \in Range(invalid) THEN <<>> ELSE <<Head(d)>>)
         \o DictWithout(Tail(d), invalid)

\* -------------------------------------------------------- parse_mapping
Returned(v) == [raised |-> None, value |-> v]
Raised(cls) == [raised |-> cls, value |-> None]

\* variant: pair.split(":", 1), so that only the first ':' separates
RECURSIVE ParsePairs_FirstColon(_, _)
ParsePairs_FirstColon(pairs, mapping) ==
    IF pairs = <<>> THEN Returned(mapping)
    ELSE LET p == Head(pairs)
             i == Find(p, ":", 1)
         IN IF i = 0 THEN Raised("ValueError")
            ELSE ParsePairs_FirstColon(Tail(pairs),
                     DictSet(mapping, Strip(SubSeq(p, 1, i - 1)),
                             Strip(SubSeq(p, i + 1, Len(p)))))

RECURSIVE ParsePairs(_, _)
\* the for loop of parse_mapping: old, new = pair.split(":") raises
\* ValueError unless the pair splits into exactly two parts
ParsePairs(pairs, mapping) ==
    IF pairs = <<>> THEN Returned(mapping)
    ELSE LET parts == Split(Head(pairs), ":")
         IN IF Len(parts) # 2 THEN Raised("ValueError")
            ELSE ParsePairs(Tail(pairs),
                            DictSet(mapping, Strip(parts[1]), Strip(parts[2])))

\* variant: pairs that do not split into two parts are skipped
RECURSIVE SkipPairs(_, _)
SkipPairs(pairs, mapping) ==
    IF pairs = <<>> THEN Returned(mapping)
    ELSE LET parts == Split(Head(pairs), ":")
         IN IF Len(parts) # 2 THEN SkipPairs(Tail(pairs), mapping)
            ELSE SkipPairs(Tail(pairs),
                           DictSet(mapping, Strip(parts[1]), Strip(parts[2])))

parse_mapping_SkipMalformed(s) ==
    IF s = <<>> THEN Returned(<<>>)
    ELSE SkipPairs(Split(s, ","), <<>>)

parse_mapping(s) ==
    IF s = <<>> THEN Returned(<<>>)
    ELSE ParsePairs(Split(s, ","), <<>>)

\* ------------------------------------------------------------ DataFrame
\* a frame: column labels, row labels (the index) and one value sequence
\* per row, aligned with the column labels
NoFrame == [columns |-> <<>>, index |-> <<>>, rows |-> <<>>, none |-> TRUE]

Frame(columns, index, rows) ==
    [columns |-> columns, index |-> index, rows |-> rows, none |-> FALSE]

\* RangeIndex(n): the labels 0..n-1
RangeIndex(n) == [i \in 1..n |-> i - 1]

\* position of the column labelled c
ColPos(columns, c) == CHOOSE j \in 1..Len(columns) : columns[j] = c

\* the value of a row under label c, NaN when the frame has no such column
Cell(columns, row, c) ==
    IF c \in Range(columns) THEN row[ColPos(columns, c)] ELSE NaN

RECURSIVE UnionColumns(_, _)
\* column labels of pd.concat: first appearance order over the frames
UnionColumns(frames, acc) ==
    IF frames = <<>> THEN acc
    ELSE UnionColumns(Tail(frames),
                      acc \o NotIn(Head(frames).columns, acc))

RECURSIVE ConcatRows(_, _)
ConcatRows(frames, columns) ==
    IF frames = <<>> THEN <<>>
    ELSE LET f == Head(frames)
         IN [i \in 1..Len(f.rows) |->
               [j \in 1..Len(columns) |-> Cell(f.columns, f.rows[i], columns[j])]]
            \o ConcatRows(Tail(frames), columns)

RECURSIVE ConcatIndex(_)
ConcatIndex(frames) ==
    IF frames = <<>> THEN <<>>
    ELSE Head(frames).index \o ConcatIndex(Tail(frames))

\* variant: the row labels of the frames are kept whatever ignore_index is
Concat_KeepIndex(frames, ignore_index) ==
    LET columns == UnionColumns(frames, <<>>)
    IN Frame(columns, ConcatIndex(frames), ConcatRows(frames, columns))

\* pd.concat(frames, ignore_index=...)
Concat(frames, ignore_index) ==
    LET columns == UnionColumns(frames, <<>>)
        rows == ConcatRows(frames, columns)
    IN Frame(columns,
             IF ignore_index THEN RangeIndex(Len(rows)) ELSE ConcatIndex(frames),
             rows)

\* variant: the listed columns in the order they have in the frame
SelectColumns_FrameOrder(frame, cols) ==
    LET kept == SelectSeq(frame.columns, LAMBDA c : c \in Range(cols))
    IN Frame(kept, frame.index,
             [i \in 1..Len(frame.rows) |->
                [j \in 1..Len(kept) |-> frame.rows[i][ColPos(frame.columns, kept[j])]]])

\* df[cols]: the listed columns in the listed order, rows and index kept
SelectColumns(frame, cols) ==
    Frame(cols, frame.index,
          [i \in 1..Len(frame.rows) |->
             [j \in 1..Len(cols) |-> frame.rows[i][ColPos(frame.columns, cols[j])]]])

\* variant: the items are applied one after the other, each to the labels
\* the previous one left
RECURSIVE RenameColumns_Chained(_, _)
RenameColumns_Chained(frame, mapping) ==
    IF mapping = <<>> THEN frame
    ELSE RenameColumns_Chained(
             Frame([j \in 1..Len(frame.columns) |->
                      IF frame.columns[j] = Head(mapping)[1]
                      THEN Head(mapping)[2] ELSE frame.columns[j]],
                   frame.index, frame.rows),
             Tail(mapping))

\* df.rename(columns=mapping): labels that are keys are replaced
RenameColumns(frame, mapping) ==
    Frame([j \in 1..Len(frame.columns) |->
             IF DictHas(mapping, frame.columns[j])
             THEN DictGet(mapping, frame.columns[j])
             ELSE frame.columns[j]],
          frame.index, frame.rows)

\* ---------------------------------------------------------------- files
\* path.suffix.lower() over the suffixes used
Lower(suffix) ==
    CASE suffix = ".CSV" -> ".csv"
      [] suffix = ".XLSX" -> ".xlsx"
      [] suffix = ".XLS" -> ".xls"
      [] OTHER -> suffix

\* exception classes caught by "except ValueError"
ValueErrors == {"ValueError"}

Info(msg, data) == [level |-> "INFO", msg |-> msg, data |-> data]
Warning(msg, data) == [level |-> "WARNING", msg |-> msg, data |-> data]
Error(msg, data) == [level |-> "ERROR", msg |-> msg, data |-> data]

\* read_table(path): fault is the exception the decoding library raises on
\* this read (None when it raises nothing); the result carries the log
\* records the call emits
read_table(path, fault) ==
    LET suffix == Lower(path.suffix)
    IN IF suffix \in {".xlsx", ".xls"}
       THEN IF fault = None
            THEN [raised |-> None, value |-> path.content, log |-> <<>>]
            ELSE [raised |-> fault, value |-> None,
                  log |-> <<Error("Failed to read", fault)>>]
       ELSE IF suffix = ".csv"
       THEN IF fault = None
            THEN [raised |-> None, value |-> path.content,
                  log |-> IF path.encoding = "utf-8" THEN <<>>
                          ELSE <<Warning("using latin1 encoding", path.suffix)>>]
            ELSE [raised |-> fault, value |-> None,
                  log |-> (IF path.encoding = "utf-8" THEN <<>>
                           ELSE <<Warning("using latin1 encoding", path.suffix)>>)
                          \o <<Error("Failed to read", fault)>>]
       ELSE [raised |-> "ValueError", value |-> None, log |-> <<>>]

RECURSIVE ReadLoop(_, _, _, _, _, _)
\* the for loop of merge_inputs from file i on; the read of file failAt
\* raises fault
ReadLoop(inputs, i, failAt, fault, frames, lg) ==
    IF i > Len(inputs)
    THEN [raised |-> None, value |-> Concat(frames, TRUE), log |-> lg]
    ELSE LET r == read_table(inputs[i], IF i = failAt THEN fault ELSE None)
         IN IF r.raised # None
            THEN [raised |-> r.raised, value |-> None, log |-> lg \o r.log]
            ELSE ReadLoop(inputs, i + 1, failAt, fault,
                          Append(frames, r.value),
                          lg \o r.log
                             \o <<Info("Loaded", <<Len(r.value.rows),
                                                   Len(r.value.columns)>>)>>)

merge_inputs(inputs, failAt, fault) ==
    ReadLoop(inputs, 1, failAt, fault, <<>>, <<>>)

\* ----------------------------------------------------------------- main
\* the output file: absent, cut short by a failed write, or complete
NoFile == [state |-> "absent", columns |-> <<>>, rows |-> <<>>]
Partial == [state |-> "partial", columns |-> <<>>, rows |-> <<>>]

\* main has not returned yet
Running == -1

\* the except clauses of main: ValueError exits 2, anything else exits 1
Handler(cls, lg) ==
    /\ pc' = "done"
    /\ IF cls \in ValueErrors
       THEN /\ log' = lg \o <<Error("Validation error", cls)>>
            /\ exit' = 2
       ELSE /\ log' = lg \o <<Error("Execution failed", cls)>>
            /\ exit' = 1

\* what a read of an unreadable file raises
ReadFaults == {"OSError"}

\* df = merge_inputs(args.inputs)
Merge ==
    /\ pc = "merge"
    /\ \E failAt \in 0..Len(args.inputs), fault \in ReadFaults :
         LET r == merge_inputs(args.inputs, failAt, fault)
         IN IF r.raised = None
            THEN /\ df' = r.value
                 /\ log' = log \o r.log \o <<Info("Merged", Len(r.value.rows))>>
                 /\ pc' = "select"
                 /\ exit' = exit
            ELSE /\ Handler(r.raised, log \o r.log)
                 /\ df' = df
    /\ UNCHANGED <<args, fs, mapping_str, parsed>>

\* variant: names that are no column are left out and the run goes on
Select_Lenient ==
    /\ pc = "select"
    /\ IF Truthy(args.select)
       THEN LET cols == SplitNames(args.select)
                present == SelectSeq(cols, LAMBDA c : c \in Range(df.columns))
            IN /\ df' = SelectColumns(df, present)
               /\ log' = log \o <<Info("Selected columns", present)>>
               /\ pc' = "rename"
               /\ exit' = exit
       ELSE /\ pc' = "rename"
            /\ UNCHANGED <<df, log, exit>>
    /\ UNCHANGED <<args, fs, mapping_str, parsed>>

\* if args.select: ...
Select ==
    /\ pc = "select"
    /\ IF Truthy(args.select)
       THEN LET cols == SplitNames(args.select)
                missing_cols == NotIn(cols, df.columns)
            IN IF missing_cols # <<>>
               THEN /\ log' = log \o <<Error("Columns not found", missing_cols),
                                       Info("Available", df.columns)>>
                    /\ exit' = 2
                    /\ pc' = "done"
                    /\ df' = df
               ELSE /\ df' = SelectColumns(df, cols)
                    /\ log' = log \o <<Info("Selected columns", cols)>>
                    /\ pc' = "rename"
                    /\ exit' = exit
       ELSE /\ pc' = "rename"
            /\ UNCHANGED <<df, log, exit>>
    /\ UNCHANGED <<args, fs, mapping_str, parsed>>

\* if args.rename: ...
Rename ==
    /\ pc = "rename"
    /\ IF Truthy(args.rename)
       THEN LET r == parse_mapping(args.rename)
            IN IF r.raised # None
               THEN /\ Handler(r.raised, log)
                    /\ df' = df
               ELSE LET invalid == NotIn(DictKeys(r.value), df.columns)
                        mapping == IF invalid # <<>>
                                   THEN DictWithout(r.value, invalid)
                                   ELSE r.value
                        warned == IF invalid # <<>>
                                  THEN <<Warning("Cannot rename non-existent", invalid)>>
                                  ELSE <<>>
                    IN /\ IF mapping # <<>>
                          THEN /\ df' = RenameColumns(df, mapping)
                               /\ log' = log \o warned \o <<Info("Renamed", mapping)>>
                          ELSE /\ df' = df
                               /\ log' = log \o warned
                       /\ pc' = "required"
                       /\ exit' = exit
       ELSE /\ pc' = "required"
            /\ UNCHANGED <<df, log, exit>>
    /\ UNCHANGED <<args, fs, mapping_str, parsed>>

\* if args.required: ...
Required ==
    /\ pc = "required"
    /\ IF Truthy(args.required)
       THEN LET required_cols == SplitNames(args.required)
                missing == NotIn(required_cols, df.columns)
            IN IF missing # <<>>
               THEN /\ log' = log \o <<Error("Missing required columns", missing)>>
                    /\ exit' = 2
                    /\ pc' = "done"
               ELSE /\ log' = log \o <<Info("All required columns present", <<>>)>>
                    /\ pc' = "save"
                    /\ exit' = exit
       ELSE /\ pc' = "save"
            /\ UNCHANGED <<log, exit>>
    /\ UNCHANGED <<args, df, fs, mapping_str, parsed>>

\* what to_csv / to_excel with index=False put in the file
Written(frame) ==
    [state |-> "complete", columns |-> frame.columns, rows |-> frame.rows]

\* outcomes of the two file-system calls of the save step
SaveFaults == {"ok", "mkdir fails", "write fails"}

\* variant: the file is opened for writing before the suffix is looked at
Save_WriteBeforeCheck ==
    /\ pc = "save"
    /\ \E io \in SaveFaults :
         LET lg == log \o <<Info("Final", <<Len(df.rows), Len(df.columns)>>),
                            Info("Columns", df.columns)>>
             suffix == Lower(args.output)
         IN IF io = "mkdir fails"
            THEN /\ Handler("OSError", lg)
                 /\ fs' = fs
            ELSE IF io = "write fails"
            THEN /\ Handler("OSError", lg)
                 /\ fs' = [dir |-> TRUE, writes |-> fs.writes + 1, output |-> Partial]
            ELSE IF suffix \notin {".csv", ".xlsx", ".xls"}
            THEN /\ Handler("ValueError", lg)
                 /\ fs' = [dir |-> TRUE, writes |-> fs.writes + 1, output |-> Partial]
            ELSE /\ fs' = [dir |-> TRUE, writes |-> fs.writes + 1,
                           output |-> Written(df)]
                 /\ log' = lg \o <<Info("Saved", args.output)>>
                 /\ exit' = 0
                 /\ pc' = "done"
    /\ UNCHANGED <<args, df, mapping_str, parsed>>

\* the summary and the save step
Save ==
    /\ pc = "save"
    /\ \E io \in SaveFaults :
         LET lg == log \o <<Info("Final", <<Len(df.rows), Len(df.columns)>>),
                            Info("Columns", df.columns)>>
             suffix == Lower(args.output)
         IN IF io = "mkdir fails"
            THEN /\ Handler("OSError", lg)
                 /\ fs' = fs
            ELSE IF suffix \notin {".csv", ".xlsx", ".xls"}
            THEN /\ Handler("ValueError", lg)
                 /\ fs' = [fs EXCEPT !.dir = TRUE]
            ELSE IF io = "write fails"
            THEN /\ Handler("OSError", lg)
                 /\ fs' = [dir |-> TRUE, writes |-> fs.writes + 1, output |-> Partial]
            ELSE /\ fs' = [dir |-> TRUE, writes |-> fs.writes + 1,
                           output |-> Written(df)]
                 /\ log' = lg \o <<Info("Saved", args.output)>>
                 /\ exit' = 0
                 /\ pc' = "done"
    /\ UNCHANGED <<args, df, mapping_str, parsed>>

\* --------------------------------------------------------------- inputs
RECURSIVE Join(_, _)
\* sep.join(parts)
Join(parts, sep) ==
    IF Len(parts) = 1 THEN Head(parts)
    ELSE Head(parts) \o <<sep>> \o Join(Tail(parts), sep)

\* the strings made of n >= 1 comma-separated entries; with no entry the
\* option is absent or the empty string
ArgStrings(entries, n) ==
    IF n = 0 THEN {None, <<>>}
    ELSE {Join(es, ",") : es \in [1..n -> entries]}

\* entries of --select: "a", " b", "c"
SelectEntries == {<<"a">>, <<" ", "b">>, <<"c">>}

\* entries of --rename: "a:b", "b:c", " a : c", "a", "a:b:c"
RenameEntries ==
    {<<"a", ":", "b">>, <<"b", ":", "c">>,
     <<" ", "a", " ", ":", " ", "c">>, <<"a">>,
     <<"a", ":", "b", ":", "c">>}

\* entries of --required: " a", "c"
RequiredEntries == {<<" ", "a">>, <<"c">>}

\* suffixes of --output
OutputSuffixes == {".csv", ".XLSX", ".txt"}

\* what decoding a file yields: n rows under the given header, each value
\* tagged with the file, its row and its column
Decoded(tag, columns, n) ==
    Frame(columns, RangeIndex(n),
          [i \in 1..n |-> [j \in 1..Len(columns) |-> <<tag, i - 1, columns[j]>>]])

File(suffix, encoding, tag, columns, n) ==
    [suffix |-> suffix, encoding |-> encoding,
     content |-> Decoded(tag, columns, n)]

\* the files a run of main is given
MainFiles ==
    {File(".csv", "utf-8", "x", <<<<"a">>, <<"b">>>>, 1),
     File(".CSV", "latin1", "y", <<<<"b">>, <<"a">>>>, 2),
     File(".XLSX", "utf-8", "z", <<<<"a">>, <<"b">>>>, MaxRows),
     File(".txt", "utf-8", "t", <<<<"a">>, <<"b">>>>, 1)}

SeqsUpTo(S, n) == UNION {[1..k -> S] : k \in 1..n}

NoFS == [dir |-> FALSE, writes |-> 0, output |-> NoFile]

Init ==
    /\ \E k \in 1..MaxFiles, output \in OutputSuffixes,
          ns \in 0..MaxArgs, nr \in 0..MaxArgs, nq \in 0..MaxArgs :
         /\ k + ns + nr + nq <= MaxArgs
         /\ \E inputs \in [1..k -> MainFiles],
               select \in ArgStrings(SelectEntries, ns),
               rename \in ArgStrings(RenameEntries, nr),
               required \in ArgStrings(RequiredEntries, nq) :
              args = [inputs |-> inputs, output |-> output, select |-> select,
                      rename |-> rename, required |-> required]
    /\ pc = "merge"
    /\ df = NoFrame
    /\ exit = Running
    /\ fs = NoFS
    /\ log = <<>>
    /\ mapping_str = None
    /\ parsed = Raised(None)

Next == Merge \/ Select \/ Rename \/ Required \/ Save

Spec == Init /\ [][Next]_vars

\* ------------------------------------------- merge_inputs on its own
\* headers of the input files
Headers ==
    {<<<<"a">>, <<"b">>>>, <<<<"b">>, <<"a">>>>, <<<<"a">>>>, <<<<"a">>, <<"c">>>>}

MergeFiles ==
    {File(".csv", "utf-8", "x", h, n) : h \in Headers, n \in 0..MaxRows}
    \cup {File(".XLSX", "utf-8", "y", h, n) : h \in Headers, n \in 0..MaxRows}

InitMerge ==
    /\ \E inputs \in SeqsUpTo(MergeFiles, MaxFiles) :
         args = [inputs |-> inputs, output |-> ".csv", select |-> None,
                 rename |-> None, required |-> None]
    /\ pc = "merge"
    /\ df = NoFrame
    /\ exit = Running
    /\ fs = NoFS
    /\ log = <<>>
    /\ mapping_str = None
    /\ parsed = Raised(None)

SpecMerge == InitMerge /\ [][Merge]_vars

\* ------------------------------------------ parse_mapping on its own
MappingChars == {"a", "b", ":", ",", " "}

MappingStrings == UNION {[1..n -> MappingChars] : n \in 0..MaxLen}

InitParse ==
    /\ mapping_str \in MappingStrings
    /\ parsed = Raised(None)
    /\ pc = "call"
    /\ args = None
    /\ df = NoFrame
    /\ exit = Running
    /\ fs = NoFS
    /\ log = <<>>

\* a call parse_mapping(mapping_str)
ParseCall ==
    /\ pc = "call"
    /\ parsed' = parse_mapping(mapping_str)
    /\ pc' = "returned"
    /\ UNCHANGED <<args, df, exit, fs, log, mapping_str>>

SpecParse == InitParse /\ [][ParseCall]_vars

\* ===================================================== properties
\* vocabulary of the properties, stated on the option strings and the log

Last(seq) == seq[Len(seq)]

Logged(msg) == \E i \in 1..Len(log) : log[i].msg = msg

\* position of the first record with the given message, 0 if none
LogPos(msg) ==
    IF Logged(msg) THEN CHOOSE i \in 1..Len(log) :
                           /\ log[i].msg = msg
                           /\ \A k \in 1..(i - 1) : log[k].msg # msg
    ELSE 0

\* number of ':' characters of a rename entry
Colons(e) == Cardinality({i \in 1..Len(e) : e[i] = ":"})

\* every comma-separated entry has exactly one ':'
WellFormed(s) == \A e \in Range(Split(s, ",")) : Colons(e) = 1

Malformed(s) == Truthy(s) /\ ~WellFormed(s)

ColonAt(e) == CHOOSE i \in 1..Len(e) : e[i] = ":"

OldOf(e) == Strip(SubSeq(e, 1, ColonAt(e) - 1))

NewOf(e) == Strip(SubSeq(e, ColonAt(e) + 1, Len(e)))

\* the new name a well-formed mapping string gives to old: that of the last
\* entry naming it
NewFor(s, old) ==
    LET es == Split(s, ",")
        k == CHOOSE i \in 1..Len(es) :
               /\ OldOf(es[i]) = old
               /\ \A m \in (i + 1)..Len(es) : OldOf(es[m]) # old
    IN NewOf(es[k])

Olds(s) == {OldOf(e) : e \in Range(Split(s, ","))}

\* the frame pd.concat yields for the decoded contents of the inputs
MergedFrame == Concat([i \in 1..Len(args.inputs) |-> args.inputs[i].content], TRUE)

\* the handler has logged a ValueError raised before the summary
ParseErrorRaised ==
    /\ Logged("Merged")
    /\ ~Logged("Final")
    /\ Last(log) = Error("Validation error", "ValueError")

NoDuplicates(seq) == \A i, j \in 1..Len(seq) : seq[i] = seq[j] => i = j

\* C1: when a run has ended, exit code 0 goes with a written output, exit
\* code 2 only with a missing --select or --required name, and every other
\* failure (unrecognized input or output extension, malformed --rename,
\* I/O error) has exit code 1.
C1_ExitCodes ==
    pc = "done" =>
      /\ exit \in {0, 1, 2}
      /\ (exit = 0 <=> fs.output = Written(df))
      /\ (exit = 2 => \/ Logged("Columns not found")
                      \/ Logged("Missing required columns"))
      /\ (Logged("Validation error") \/ Logged("Execution failed") => exit = 1)

\* C2: a write of the output file is attempted only after merge and every
\* requested stage (select, rename, required) succeeded in that order, and a
\* run that failed in reading, select, rename parsing, required validation
\* or on the output extension has attempted no write and left no output
\* file.
C2_WriteLast ==
    /\ fs.writes > 0 =>
         /\ fs.writes = 1
         /\ fs.output \in {Written(df), Partial}
         /\ 0 < LogPos("Merged")
         /\ LogPos("Merged") < LogPos("Final")
         /\ Truthy(args.select) =>
              /\ LogPos("Merged") < LogPos("Selected columns")
              /\ LogPos("Selected columns") < LogPos("Final")
         /\ Truthy(args.rename) =>
              /\ WellFormed(args.rename)
              /\ \E i \in 1..Len(log) :
                   /\ log[i].msg \in {"Renamed", "Cannot rename non-existent"}
                   /\ LogPos("Merged") < i
                   /\ Truthy(args.select) => LogPos("Selected columns") < i
                   /\ i < LogPos("Final")
                   /\ Truthy(args.required) => i < LogPos("All required columns present")
         /\ Truthy(args.required) =>
              /\ LogPos("Merged") < LogPos("All required columns present")
              /\ Truthy(args.select) =>
                   LogPos("Selected columns") < LogPos("All required columns present")
              /\ LogPos("All required columns present") < LogPos("Final")
         /\ ~Logged("Columns not found")
         /\ ~Logged("Missing required columns")
    /\ (/\ pc = "done"
        /\ exit # 0
        /\ \/ ~Logged("Merged")
           \/ Logged("Columns not found")
           \/ ParseErrorRaised
           \/ Logged("Missing required columns")
           \/ Logged("Final") /\ Last(log) = Error("Validation error", "ValueError"))
       => /\ fs.writes = 0
          /\ fs.output = NoFile

\* a run that passed select, rename and required and then failed on the
\* output extension, after the output directory was created
C2_Witness ==
    /\ pc = "done"
    /\ exit # 0
    /\ fs.dir
    /\ Logged("Selected columns")
    /\ Logged("Renamed")
    /\ Logged("All required columns present")
    /\ Last(log) = Error("Validation error", "ValueError")

\* the names of a comma-separated option that are no column of the frame
Absent(s, frame) == {n \in Range(SplitNames(s)) : n \notin Range(frame.columns)}

\* the stages before the required check have run when they were requested
SelectAndRenameDone ==
    /\ Truthy(args.select) => Logged("Selected columns")
    /\ Truthy(args.rename) =>
         Logged("Renamed") \/ Logged("Cannot rename non-existent")

\* C3: the required check runs on the frame left by select and rename; with
\* an absent required name the run ends with exit code 2, reports exactly
\* the absent names and writes nothing; with none absent the run goes on to
\* the save step with the frame unchanged.
C3_RequiredCheck ==
    /\ [](pc = "required" => SelectAndRenameDone)
    /\ [][(pc = "required" /\ Truthy(args.required)) =>
            IF Absent(args.required, df) # {}
            THEN /\ pc' = "done"
                 /\ exit' = 2
                 /\ Len(log') = Len(log) + 1
                 /\ Last(log').msg = "Missing required columns"
                 /\ Range(Last(log').data) = Absent(args.required, df)
                 /\ fs' = NoFS
                 /\ df' = df
            ELSE /\ pc' = "save"
                 /\ exit' = Running
                 /\ df' = df
                 /\ fs' = fs]_vars

\* a run whose required check found two names absent, one of them a
\* column of the merged frame that the rename stage had renamed
C3_Witness ==
    /\ pc = "done"
    /\ exit = 2
    /\ Logged("Renamed")
    /\ Last(log).msg = "Missing required columns"
    /\ Cardinality(Range(Last(log).data)) = 2
    /\ \E n \in Range(Last(log).data) : n \in Range(MergedFrame.columns)

\* C4: with a --select name that is no column of the merged frame the run
\* ends with exit code 2, the reported list holds exactly the absent names,
\* and neither rename, the required check nor a write takes place.
C4_SelectMissing ==
    /\ [](Logged("Columns not found") =>
            /\ pc = "done"
            /\ exit = 2
            /\ df = MergedFrame
            /\ fs = NoFS
            /\ Len(log) = LogPos("Columns not found") + 1
            /\ Last(log) = Info("Available", MergedFrame.columns))
    /\ [][(pc = "select" /\ Truthy(args.select) /\ Absent(args.select, df) # {}) =>
            /\ Logged("Columns not found")'
            /\ Range(log'[Len(log) + 1].data) = Absent(args.select, df)]_vars

\* a run aborted by select with one present and one absent name, while a
\* rename and a required list were given
C4_Witness ==
    /\ pc = "done"
    /\ Logged("Columns not found")
    /\ Len(SplitNames(args.select)) = 2
    /\ Cardinality(Absent(args.select, df)) = 1
    /\ Truthy(args.rename)

\* C5: when every --select name is a column of the merged frame, the frame
\* after select has exactly the listed columns in the requested order and
\* the rows of the frame before select, in the same order.
C5_SelectColumns ==
    [][(pc = "select" /\ Truthy(args.select) /\ Absent(args.select, df) = {}) =>
         /\ pc' = "rename"
         /\ df'.columns = SplitNames(args.select)
         /\ Len(df'.rows) = Len(df.rows)
         /\ df'.index = df.index
         /\ \A i \in 1..Len(df.rows) : \A j \in 1..Len(df'.columns) :
              df'.rows[i][j] = Cell(df.columns, df.rows[i], df'.columns[j])]_vars

\* a frame with several rows after a select that listed the columns in an
\* order other than the merged one
C5_Witness ==
    /\ pc = "rename"
    /\ Logged("Selected columns")
    /\ Len(df.rows) >= 2
    /\ Len(df.columns) = 2
    /\ df.columns[1] = MergedFrame.columns[2]
    /\ df.columns[2] = MergedFrame.columns[1]

\* sum of the row counts of the input files
RECURSIVE RowsUpTo(_, _)
RowsUpTo(inputs, k) ==
    IF k = 0 THEN 0 ELSE RowsUpTo(inputs, k - 1) + Len(inputs[k].content.rows)

SameColumnSets(inputs) ==
    \A k \in 1..Len(inputs) :
       Range(inputs[k].content.columns) = Range(inputs[1].content.columns)

\* C6: merging k >= 1 readable files with identical column sets gives a
\* frame with the sum of the row counts, the column set of any input, the
\* inputs' rows in file order under the index 0..n-1, and for k = 1 the
\* content of the single decoded file.
C6_MergeInputs ==
    (pc = "select" /\ SameColumnSets(args.inputs)) =>
      /\ Len(df.rows) = RowsUpTo(args.inputs, Len(args.inputs))
      /\ Range(df.columns) = Range(args.inputs[1].content.columns)
      /\ NoDuplicates(df.columns)
      /\ df.index = [i \in 1..Len(df.rows) |-> i - 1]
      /\ \A k \in 1..Len(args.inputs) :
           LET f == args.inputs[k].content
           IN \A r \in 1..Len(f.rows) : \A j \in 1..Len(f.columns) :
                Cell(df.columns, df.rows[RowsUpTo(args.inputs, k - 1) + r],
                     f.columns[j]) = f.rows[r][j]
      /\ Len(args.inputs) = 1 => df = args.inputs[1].content

\* two files with rows and the same columns in different orders, merged
C6_Witness ==
    /\ pc = "select"
    /\ Len(args.inputs) = 2
    /\ SameColumnSets(args.inputs)
    /\ args.inputs[1].content.columns # args.inputs[2].content.columns
    /\ Len(args.inputs[1].content.rows) = 2
    /\ Len(args.inputs[2].content.rows) >= 1
    /\ Len(df.rows) >= 3

\* the mapping pairs of a returned dict, as a set
Items(d) == Range(d)

\* C7: parse_mapping returns the empty mapping for the empty string; for a
\* string whose comma-separated entries each hold exactly one ':' it returns
\* the mapping of each trimmed old name to its trimmed new name (the last
\* entry deciding for an old name given twice); for a string with an entry
\* holding no or several ':' it raises and returns no mapping.
C7_ParseMapping ==
    pc = "returned" =>
      /\ mapping_str = <<>> => parsed = Returned(<<>>)
      /\ (mapping_str # <<>> /\ WellFormed(mapping_str)) =>
           /\ parsed.raised = None
           /\ NoDuplicates(DictKeys(parsed.value))
           /\ Items(parsed.value) =
                {<<old, NewFor(mapping_str, old)>> : old \in Olds(mapping_str)}
      /\ (mapping_str # <<>> /\ ~WellFormed(mapping_str)) =>
           parsed = Raised("ValueError")

\* a call that returned a mapping of two padded entries
C7_Witness ==
    /\ pc = "returned"
    /\ parsed.raised = None
    /\ Len(parsed.value) = 2
    /\ \E i \in 1..Len(mapping_str) : mapping_str[i] = " "

\* the old names of a mapping string that are no column of the frame
Dropped(s, frame) == {old \in Olds(s) : old \notin Range(frame.columns)}

\* C8: for a well-formed --rename string the rename stage does not end the
\* run; old names that are no column are dropped and reported in a warning,
\* every column named by a kept entry takes the mapped new name, every other
\* column keeps its name, and the number and positions of the columns and
\* the rows stay as they were.
C8_RenameStage ==
    [][(pc = "rename" /\ Truthy(args.rename) /\ WellFormed(args.rename)) =>
         /\ pc' = "required"
         /\ exit' = Running
         /\ df'.rows = df.rows
         /\ df'.index = df.index
         /\ Len(df'.columns) = Len(df.columns)
         /\ \A j \in 1..Len(df.columns) :
              df'.columns[j] = IF df.columns[j] \in Olds(args.rename)
                                THEN NewFor(args.rename, df.columns[j])
                                ELSE df.columns[j]
         /\ IF Dropped(args.rename, df) = {}
            THEN \A i \in (Len(log) + 1)..Len(log') : log'[i].level # "WARNING"
            ELSE /\ log'[Len(log) + 1].level = "WARNING"
                 /\ Range(log'[Len(log) + 1].data) = Dropped(args.rename, df)
                 /\ \A i \in (Len(log) + 1)..Len(log') :
                      log'[i].msg = "Renamed" =>
                        \A k \in 1..Len(log'[i].data) :
                           log'[i].data[k][1] \notin Dropped(args.rename, df)]_vars

\* a rename that dropped one key and renamed a column with the other, the
\* new name being the old name of another entry
C8_Witness ==
    /\ pc = "required"
    /\ Logged("Cannot rename non-existent")
    /\ Logged("Renamed")
    /\ df.columns # MergedFrame.columns
    /\ \E old \in Olds(args.rename) : NewFor(args.rename, old) \in Olds(args.rename)

\* C9 as stated: a run with a malformed --rename string that got past
\* reading ends with the parse error while the frame is still the merged
\* frame.
C9_ParseBeforeTransform ==
    (pc = "done" /\ Malformed(args.rename) /\ Logged("Merged")) =>
      /\ ParseErrorRaised
      /\ df = MergedFrame

\* C9, amended: a run with a malformed --rename string never succeeds and
\* never touches the file system; when reading and select succeed it ends
\* with the parse error, raised before any rename is checked or applied,
\* the frame then being the one select left (the merged frame without
\* --select).
C9_ParseAfterSelect ==
    (pc = "done" /\ Malformed(args.rename)) =>
      /\ exit \in {1, 2}
      /\ fs = NoFS
      /\ (Logged("Merged") /\ ~Logged("Columns not found")) =>
           /\ ParseErrorRaised
           /\ ~Logged("Renamed")
           /\ ~Logged("Cannot rename non-existent")
           /\ df.index = MergedFrame.index
           /\ IF Truthy(args.select)
              THEN /\ Logged("Selected columns")
                   /\ df.columns = SplitNames(args.select)
                   /\ \A i \in 1..Len(df.rows) : \A j \in 1..Len(df.columns) :
                        df.rows[i][j] = Cell(MergedFrame.columns,
                                             MergedFrame.rows[i], df.columns[j])
              ELSE df = MergedFrame

\* a run ended by the parse error after select had narrowed the frame
C9_Witness ==
    /\ pc = "done"
    /\ Malformed(args.rename)
    /\ ParseErrorRaised
    /\ Logged("Selected columns")
    /\ df # MergedFrame

\* C10: no two columns of the working frame have the same name.
C10_UniqueColumns == ~df.none => NoDuplicates(df.columns)

====
